---- MODULE Spec2Model ----
(***************************************************************************)
(* f2fsdist: per-operation latency histogram of f2fs open/read/write/fsync *)
(* (tools/f2fsdist.py).  The model covers the in-kernel probe handlers     *)
(* (trace_entry, trace_read_entry, trace_return and the four               *)
(* trace_*_return wrappers), the two BPF maps they share (start, dist),    *)
(* the start-up of the tool (argument check, resolution of the read        *)
(* function, attachment of the probes) and the user-space output loop.     *)
(***************************************************************************)
EXTENDS Integers, Naturals, Sequences, FiniteSets, TLC

(* ------------------------------ bounds -------------------------------- *)
\* number of events of the traced system in a run: probe firings (entry or
\* return) and advances of the monotonic clock
MaxEvents == 4
\* largest repeat count given on the command line, and the number of
\* reports after which an unbounded loop is no longer followed
MaxReports == 2
\* width of the modelled clock word (the program's u64/s64 are 64 bits wide)
ClockBits == 24

(* --------------------------- program constants ------------------------ *)
\* parser default of "count"
DefaultCount == 99999999
\* factor for usecs / for msecs
FactorUsecs == 1000
FactorMsecs == 1000000

Word == 2 ^ ClockBits
Half == 2 ^ (ClockBits - 1)

\* the four traced operations, by the label their return probe passes
Ops == {"read", "write", "open", "fsync"}

\* the operations the traced threads perform
Workload == {"read", "write"}

\* threads that hit the probes: tid 181 is the main thread of process 181,
\* tid 305 a thread of process 300
Threads == {181, 305}
Tgid(t) == IF t = 181 THEN 181 ELSE 300

\* an argument the command line did not give (args.pid, args.interval None)
NoArg == -1
\* result of start.lookup for a missing key
NoTs == -1
\* f2fs_file_ops_addr while no symbol was found ('')
NoAddr == -1
\* in the history of a thread's entries: a read entry that trace_read_entry
\* dropped because the file is not an f2fs file
NotF2fs == -2
\* fp->f_op of a file of another filesystem
OtherFileOps == 80

VARIABLES
    kernel,       \* the running kernel: whether f2fs_file_read_iter can be
                  \* probed, and the lines of /proc/kallsyms
    f2fs_read_fn,         \* function the read probes are attached to
    f2fs_trace_read_fn,   \* handler of the read entry probe
    f2fs_file_ops_addr,   \* address substituted into trace_read_entry
    attached,     \* the attach_kprobe / attach_kretprobe calls made, in order
    errmsg,       \* first line of the error printed at start-up, or ""
    exitStatus,   \* exit status of the process, NoArg while it runs
    pid,          \* args.pid: the process filter, or NoArg
    interval,     \* args.interval, or NoArg
    count,        \* args.count
    factor,       \* FACTOR substituted into the BPF text
    countdown,    \* remaining reports
    exiting,      \* set by KeyboardInterrupt during sleep
    pc,           \* position of the output loop
    ktime,        \* bpf_ktime_get_ns()
    start,        \* BPF_HASH(start, u32): tid -> timestamp
    dist,         \* BPF_HISTOGRAM(dist, dist_key_t): key -> count
    loc,          \* per thread: locals of a trace_return that runs (raced:
                  \* history, another handler incremented the same key
                  \* meanwhile)
    reports,      \* standard output: the histograms print_log2_hist rendered
    nclears,      \* number of dist.clear() calls completed
    nevents,      \* number of probe firings and clock advances so far
    unconsumed,   \* history, per thread: what the entries since the last
                  \* return stored (NoTs for an entry the process filter
                  \* dropped, NotF2fs for one the f_op test dropped)
    entryOp,      \* history, per thread: the operation whose entry stored
                  \* start[tid], "" while there is none
    lastReturn,   \* history, per thread: outcome of the latest trace_return
                  \* and the entries that preceded it
    sinceClear    \* history, per key: increments since line 230 last ran

vars == <<kernel, f2fs_read_fn, f2fs_trace_read_fn, f2fs_file_ops_addr,
          attached, errmsg, exitStatus, pid, interval, count, factor, countdown, exiting, pc, ktime, start,
          dist, loc, reports, nclears, nevents, unconsumed, entryOp,
          lastReturn, sinceClear>>

config == <<kernel, f2fs_read_fn, f2fs_trace_read_fn, f2fs_file_ops_addr,
            attached, errmsg, pid, interval, count, factor>>
loopv  == <<countdown, exiting, pc, reports, nclears, exitStatus>>
ghostv == <<unconsumed, entryOp, lastReturn, sinceClear>>

Idle == [pc |-> "idle"]
EmptyTable == <<>>

\* count stored under key k, 0 when the key is absent
Count(d, k) == IF k \in DOMAIN d THEN d[k] ELSE 0

Last(s) == s[Len(s)]

(* ------------------------- pure helper functions ----------------------- *)
\* u64 subtraction, wrapping
USub(a, b) == (a - b + Word) % Word

\* (s64) cast of an unsigned word
AsS64(d) == IF d >= Half THEN d - Word ELSE d

\* bpf_log2l (bcc helpers.h, not part of tools/f2fsdist.py), as the design
\* document states it: base-2 logarithm, floored, 0 for arguments below 1
RECURSIVE bpf_log2l(_)
bpf_log2l(v) == IF v <= 1 THEN 0 ELSE 1 + bpf_log2l(v \div 2)

\* FILTER_PID as substituted at lines 191-194: TRUE when the call is dropped
\* (variant: the filter is never applied)
FILTER_PID_Never(t) == FALSE
FILTER_PID(t) == IF pid # NoArg THEN Tgid(t) # pid ELSE FALSE

\* start.update(&tid, &ts): insert or overwrite
\* (variant: start.insert, which keeps an existing entry)
StartUpdateNoExist(s, t, ts) == IF s[t] = NoTs THEN [s EXCEPT ![t] = ts] ELSE s
StartUpdate(s, t, ts) == [s EXCEPT ![t] = ts]

\* (s64) delta < 0
\* (variant: the comparison without the cast)
NegativeDeltaUnsigned(delta) == delta < 0
NegativeDelta(delta) == AsS64(delta) < 0

\* dist_key_t key = {.slot = bpf_log2l(delta)}, key.op = op, after delta /= FACTOR
\* (variant: the slot is delta itself)
HistKeyLinear(op, delta) == [op |-> op, slot |-> delta]
HistKey(op, delta) == [op |-> op, slot |-> bpf_log2l(delta)]

\* dist.increment(key): add one atomically, creating the key at 1
Increment(d, k) ==
    [x \in DOMAIN d \cup {k} |-> IF x = k THEN Count(d, x) + 1 ELSE d[x]]

\* dist.clear(): remove every key
ClearTable(d) == EmptyTable

(* ------------------------------- Init --------------------------------- *)
\* the command lines followed: the examples of the usage text, with the
\* repeat count ranging up to MaxReports
CommandLines ==
    {[pid |-> NoArg, interval |-> NoArg, count |-> DefaultCount, milliseconds |-> FALSE],
     [pid |-> 181, interval |-> NoArg, count |-> DefaultCount, milliseconds |-> FALSE],
     [pid |-> NoArg, interval |-> 5, count |-> DefaultCount, milliseconds |-> TRUE]}
    \cup {[pid |-> NoArg, interval |-> 1, count |-> n, milliseconds |-> FALSE] :
             n \in 1..MaxReports}

\* a command line with interval 0
ZeroInterval ==
    [pid |-> NoArg, interval |-> 0, count |-> DefaultCount, milliseconds |-> FALSE]

\* the kernels followed.  A line of /proc/kallsyms is "addr type name", the
\* name followed by a tab and the module for a symbol of a module: name is
\* kept as its tab-separated fields.
\* KernelNew has f2fs_file_read_iter; KernelOld has not, f2fs is a module
\* and data symbols are listed; KernelBare lists no data symbols.
KernelNew ==
    [dedicated |-> TRUE,
     kallsyms |-> <<[addr |-> 16, type |-> "T", name |-> <<"f2fs_file_read_iter">>],
                    [addr |-> 48, type |-> "r", name |-> <<"f2fs_file_operations">>]>>]
KernelOld ==
    [dedicated |-> FALSE,
     kallsyms |-> <<[addr |-> 16, type |-> "T", name |-> <<"generic_file_read_iter">>],
                    [addr |-> 32, type |-> "r",
                     name |-> <<"f2fs_dir_operations", "[f2fs]">>],
                    [addr |-> 48, type |-> "r",
                     name |-> <<"f2fs_file_operations", "[f2fs]">>],
                    [addr |-> 64, type |-> "r",
                     name |-> <<"f2fs_file_inode_operations", "[f2fs]">>]>>]
KernelBare ==
    [dedicated |-> FALSE,
     kallsyms |-> <<[addr |-> 16, type |-> "T", name |-> <<"generic_file_read_iter">>],
                    [addr |-> 24, type |-> "t",
                     name |-> <<"f2fs_file_write_iter", "[f2fs]">>]>>]

\* the runs followed: a command line on a kernel
Runs ==
    {[args |-> a, kernel |-> KernelNew] : a \in CommandLines \cup {ZeroInterval}}
    \cup {[args |-> a, kernel |-> KernelOld] :
             a \in {c \in CommandLines : c.count = 1}}
    \cup {[args |-> a, kernel |-> KernelBare] :
             a \in {c \in CommandLines : c.interval = NoArg} \cup {ZeroInterval}}

\* the first line printed by each of the two error exits of the start-up
MsgInterval == "ERROR: interval 0. Exiting."
MsgNoSymbol == "ERROR: no f2fs_file_operations in /proc/kallsyms. Exiting."

\* exit status of exit() called without an argument
ExitDefault == 0
\* exit status of the interpreter ended by an uncaught KeyboardInterrupt
\* (1, or 130 where it re-raises the signal)
KilledStatus == {1, 130}

\* args.interval and int(args.interval) == 0
\* (variant: the test is left out)
IntervalZeroNever(args) == FALSE
IntervalZero(args) == args.interval # NoArg /\ args.interval = 0

\* name = name.split("\t")[0]
\* (variant: the name is compared with its module tag)
SymbolNameWhole(line) == IF Len(line.name) = 1 THEN line.name[1] ELSE line.name
SymbolName(line) == Head(line.name)

\* the scan of /proc/kallsyms from line i on: the address of the first line
\* named f2fs_file_operations
RECURSIVE ScanKallsyms(_, _)
ScanKallsyms(lines, i) ==
    IF i > Len(lines) THEN NoAddr
    ELSE IF SymbolName(lines[i]) = "f2fs_file_operations" THEN lines[i].addr
         ELSE ScanKallsyms(lines, i + 1)

\* lines 148-166: the read function, its entry handler, and whether the
\* start-up goes on
\* (variant: a missing symbol is not an error)
ResolveUnchecked(k) ==
    IF k.dedicated
    THEN [f2fs_read_fn |-> "f2fs_file_read_iter", f2fs_trace_read_fn |-> "trace_entry",
          f2fs_file_ops_addr |-> NoAddr, found |-> TRUE]
    ELSE [f2fs_read_fn |-> "generic_file_read_iter",
          f2fs_trace_read_fn |-> "trace_read_entry",
          f2fs_file_ops_addr |-> ScanKallsyms(k.kallsyms, 1),
          found |-> TRUE]
Resolve(k) ==
    IF k.dedicated
    THEN [f2fs_read_fn |-> "f2fs_file_read_iter", f2fs_trace_read_fn |-> "trace_entry",
          f2fs_file_ops_addr |-> NoAddr, found |-> TRUE]
    ELSE [f2fs_read_fn |-> "generic_file_read_iter",
          f2fs_trace_read_fn |-> "trace_read_entry",
          f2fs_file_ops_addr |-> ScanKallsyms(k.kallsyms, 1),
          found |-> ScanKallsyms(k.kallsyms, 1) # NoAddr]

\* the function each operation is probed at
ProbedFn(r, op) ==
    CASE op = "read"  -> r.f2fs_read_fn
      [] op = "write" -> "f2fs_file_write_iter"
      [] op = "open"  -> "f2fs_file_open"
      [] op = "fsync" -> "f2fs_sync_file"

\* lines 203-210: the eight attach calls, in order
AttachProbes(r) ==
    <<[probe |-> "kprobe", event |-> ProbedFn(r, "read"), fn_name |-> r.f2fs_trace_read_fn],
      [probe |-> "kprobe", event |-> ProbedFn(r, "write"), fn_name |-> "trace_entry"],
      [probe |-> "kprobe", event |-> ProbedFn(r, "open"), fn_name |-> "trace_entry"],
      [probe |-> "kprobe", event |-> ProbedFn(r, "fsync"), fn_name |-> "trace_entry"],
      [probe |-> "kretprobe", event |-> ProbedFn(r, "read"),
       fn_name |-> "trace_read_return"],
      [probe |-> "kretprobe", event |-> ProbedFn(r, "write"),
       fn_name |-> "trace_write_return"],
      [probe |-> "kretprobe", event |-> ProbedFn(r, "open"),
       fn_name |-> "trace_open_return"],
      [probe |-> "kretprobe", event |-> ProbedFn(r, "fsync"),
       fn_name |-> "trace_fsync_return"]>>

\* nothing resolved: the start-up ended before line 148
Unresolved ==
    [f2fs_read_fn |-> "", f2fs_trace_read_fn |-> "", f2fs_file_ops_addr |-> NoAddr,
     found |-> FALSE]

\* the start-up, lines 59-211: where it leaves the process
Startup(args, k) ==
    IF IntervalZero(args)
    THEN [pc |-> "exit", errmsg |-> MsgInterval,
          exitStatus |-> ExitDefault, res |-> Unresolved, attached |-> <<>>]
    ELSE IF ~Resolve(k).found
    THEN [pc |-> "exit", errmsg |-> MsgNoSymbol,
          exitStatus |-> ExitDefault, res |-> Resolve(k), attached |-> <<>>]
    ELSE [pc |-> "sleep", errmsg |-> "", exitStatus |-> NoArg,
          res |-> Resolve(k), attached |-> AttachProbes(Resolve(k))]

Init ==
    /\ \E run \in Runs :
          /\ kernel = run.kernel
          /\ pid = run.args.pid
          /\ interval = run.args.interval
          /\ count = run.args.count
          /\ factor = IF run.args.milliseconds THEN FactorMsecs ELSE FactorUsecs
          /\ pc = Startup(run.args, run.kernel).pc
          /\ errmsg = Startup(run.args, run.kernel).errmsg
          /\ exitStatus = Startup(run.args, run.kernel).exitStatus
          /\ attached = Startup(run.args, run.kernel).attached
          /\ f2fs_read_fn = Startup(run.args, run.kernel).res.f2fs_read_fn
          /\ f2fs_trace_read_fn = Startup(run.args, run.kernel).res.f2fs_trace_read_fn
          /\ f2fs_file_ops_addr = Startup(run.args, run.kernel).res.f2fs_file_ops_addr
    /\ countdown = count
    /\ exiting = 0
    /\ ktime = 0
    /\ start = [t \in Threads |-> NoTs]
    /\ dist = EmptyTable
    /\ loc = [t \in Threads |-> Idle]
    /\ reports = <<>>
    /\ nclears = 0
    /\ nevents = 0
    /\ unconsumed = [t \in Threads |-> <<>>]
    /\ entryOp = [t \in Threads |-> ""]
    /\ lastReturn = [t \in Threads |-> [res |-> "none", entries |-> <<>>]]
    /\ sinceClear = EmptyTable

\* the probes stay attached until the process ends
Running == pc \in {"sleep", "print", "clear"}

\* the process ends: its probes are detached and its maps released, and the
\* histories kept about them end with them
ProcessExit ==
    /\ start' = [t \in Threads |-> NoTs]
    /\ dist' = EmptyTable
    /\ loc' = [t \in Threads |-> Idle]
    /\ unconsumed' = [t \in Threads |-> <<>>]
    /\ entryOp' = [t \in Threads |-> ""]
    /\ lastReturn' = [t \in Threads |-> [res |-> "none", entries |-> <<>>]]
    /\ sinceClear' = EmptyTable

(* ------------------------------ the clock ----------------------------- *)
\* bpf_ktime_get_ns() is monotonic; between two reads it advances by a
\* little or by nearly half the word
TickSteps == {factor + factor \div 2, Half - factor}

Tick ==
    /\ Running
    /\ nevents < MaxEvents
    /\ \E d \in TickSteps : ktime' = (ktime + d) % Word
    /\ nevents' = nevents + 1
    /\ UNCHANGED <<config, loopv, start, dist, loc, ghostv>>

(* --------------------------- probe handlers --------------------------- *)
\* a thread runs one handler at a time, to completion
CanFire(t) == Running /\ nevents < MaxEvents /\ loc[t].pc = "idle"

\* trace_entry, entered from the entry probe of op's function (the read
\* probe runs it only where the resolver chose it)
trace_entry(t, op) ==
    /\ CanFire(t)
    /\ op = "read" => f2fs_trace_read_fn = "trace_entry"
    /\ nevents' = nevents + 1
    /\ IF FILTER_PID(t)
       THEN /\ unconsumed' = [unconsumed EXCEPT ![t] = Append(@, NoTs)]
            /\ UNCHANGED <<start, entryOp>>
       ELSE /\ start' = StartUpdate(start, t, ktime)
            /\ unconsumed' = [unconsumed EXCEPT ![t] = Append(@, ktime)]
            /\ entryOp' = [entryOp EXCEPT ![t] = op]
    /\ UNCHANGED <<config, loopv, ktime, dist, loc, lastReturn, sinceClear>>

\* trace_read_entry, entered from the entry probe of generic_file_read_iter
\* for a read of a file whose fp->f_op is f_op
trace_read_entry(t, f_op) ==
    /\ CanFire(t)
    /\ f2fs_trace_read_fn = "trace_read_entry"
    /\ nevents' = nevents + 1
    /\ IF FILTER_PID(t)
       THEN /\ unconsumed' = [unconsumed EXCEPT ![t] = Append(@, NoTs)]
            /\ UNCHANGED <<start, entryOp>>
       ELSE IF f_op # f2fs_file_ops_addr
       THEN /\ unconsumed' = [unconsumed EXCEPT ![t] = Append(@, NotF2fs)]
            /\ UNCHANGED <<start, entryOp>>
       ELSE /\ start' = StartUpdate(start, t, ktime)
            /\ unconsumed' = [unconsumed EXCEPT ![t] = Append(@, ktime)]
            /\ entryOp' = [entryOp EXCEPT ![t] = "read"]
    /\ UNCHANGED <<config, loopv, ktime, dist, loc, lastReturn, sinceClear>>

\* tsp == 0 after tsp = start.lookup(&tid)
\* (variant: the test is left out)
LookupMissedNever(s, t) == FALSE
LookupMissed(s, t) == s[t] = NoTs

\* start.delete(&tid), which line 104 runs before the sign of delta is looked at
\* (variant: the entry is deleted only once delta is known not to be negative)
StartDeleteAfterCheck(s, t) ==
    IF NegativeDelta(USub(ktime, s[t])) THEN s ELSE [s EXCEPT ![t] = NoTs]
StartDelete(s, t) == [s EXCEPT ![t] = NoTs]

\* trace_return up to the increment, entered from trace_<op>_return
trace_return(t, op) ==
    /\ CanFire(t)
    /\ nevents' = nevents + 1
    /\ unconsumed' = [unconsumed EXCEPT ![t] = <<>>]
    /\ IF LookupMissed(start, t)
       THEN /\ lastReturn' = [lastReturn EXCEPT ![t] =
                                 [res |-> "absent", entries |-> unconsumed[t]]]
            /\ UNCHANGED <<start, loc, entryOp>>
       ELSE LET delta == USub(ktime, start[t]) IN
            /\ start' = StartDelete(start, t)
            /\ entryOp' = [entryOp EXCEPT ![t] = IF start'[t] = NoTs THEN "" ELSE @]
            /\ IF NegativeDelta(delta)
               THEN /\ lastReturn' = [lastReturn EXCEPT ![t] =
                                 [res |-> "negative", entries |-> unconsumed[t]]]
                    /\ UNCHANGED loc
               ELSE /\ lastReturn' = [lastReturn EXCEPT ![t] =
                                 [res |-> "recorded", entries |-> unconsumed[t]]]
                    /\ loc' = [loc EXCEPT ![t] =
                                 [pc |-> "inc", op |-> op, tsp |-> start[t],
                                  entered |-> entryOp[t],
                                  now |-> ktime, elapsed |-> delta,
                                  delta |-> delta \div factor,
                                  key |-> HistKey(op, delta \div factor),
                                  raced |-> FALSE]]
    /\ UNCHANGED <<config, loopv, ktime, dist, sinceClear>>

\* the tail of trace_return: dist.increment(key)
\* (variant: the count is stored as 1 instead of incremented)
dist_increment_store(t) ==
    /\ loc[t].pc = "inc"
    /\ dist' = [x \in DOMAIN dist \cup {loc[t].key} |->
                   IF x = loc[t].key THEN 1 ELSE dist[x]]
    /\ sinceClear' = Increment(sinceClear, loc[t].key)
    /\ loc' = [u \in Threads |->
                 IF u = t THEN Idle
                 ELSE IF loc[u].pc = "inc" /\ loc[u].key = loc[t].key
                      THEN [loc[u] EXCEPT !.raced = TRUE] ELSE loc[u]]
    /\ UNCHANGED <<config, loopv, ktime, start, nevents, unconsumed, entryOp,
                   lastReturn>>
dist_increment(t) ==
    /\ loc[t].pc = "inc"
    /\ dist' = Increment(dist, loc[t].key)
    /\ sinceClear' = Increment(sinceClear, loc[t].key)
    /\ loc' = [u \in Threads |->
                 IF u = t THEN Idle
                 ELSE IF loc[u].pc = "inc" /\ loc[u].key = loc[t].key
                      THEN [loc[u] EXCEPT !.raced = TRUE] ELSE loc[u]]
    /\ UNCHANGED <<config, loopv, ktime, start, nevents, unconsumed, entryOp,
                   lastReturn>>

(* ---------------------------- output loop ----------------------------- *)
\* sleep() returns after its time (99999999 s without an interval)
SleepTimeout ==
    /\ pc = "sleep"
    /\ Len(reports) < MaxReports
    /\ pc' = "print"
    /\ UNCHANGED <<config, countdown, exiting, reports, nclears, exitStatus,
                   ktime, start, dist, loc, nevents, ghostv>>

\* Ctrl-C while in sleep(): caught at line 222
KeyboardInterruptInSleep ==
    /\ pc = "sleep"
    /\ exiting' = 1
    /\ pc' = "print"
    /\ UNCHANGED <<config, countdown, reports, nclears, exitStatus, ktime,
                   start, dist, loc, nevents, ghostv>>

\* Ctrl-C outside the try block: nothing catches the exception
KeyboardInterruptUncaught ==
    /\ pc \in {"print", "clear"}
    /\ pc' = "killed"
    /\ exitStatus' \in KilledStatus
    /\ ProcessExit
    /\ UNCHANGED <<config, countdown, exiting, reports, nclears, ktime, nevents>>

\* print() and dist.print_log2_hist()
\* (variant: the table is cleared before it is rendered)
RenderAfterClear ==
    /\ pc = "print"
    /\ reports' = Append(reports, ClearTable(dist))
    /\ pc' = "clear"
    /\ UNCHANGED <<config, countdown, exiting, nclears, exitStatus, ktime,
                   start, dist, loc, nevents, ghostv>>
Render ==
    /\ pc = "print"
    /\ reports' = Append(reports, dist)
    /\ pc' = "clear"
    /\ UNCHANGED <<config, countdown, exiting, nclears, exitStatus, ktime,
                   start, dist, loc, nevents, ghostv>>

\* dist.clear(), the countdown and the exit test
\* (variants: without the clear; without the countdown)
DrainNoClear ==
    /\ pc = "clear"
    /\ nclears' = nclears + 1
    /\ countdown' = countdown - 1
    /\ IF exiting # 0 \/ countdown' = 0
       THEN /\ pc' = "done"
            /\ exitStatus' = ExitDefault
            /\ ProcessExit
       ELSE /\ pc' = "sleep"
            /\ UNCHANGED exitStatus
            /\ dist' = dist
            /\ sinceClear' = EmptyTable
            /\ UNCHANGED <<start, loc, unconsumed, entryOp, lastReturn>>
    /\ UNCHANGED <<config, exiting, reports, ktime, nevents>>
DrainNoCountdown ==
    /\ pc = "clear"
    /\ nclears' = nclears + 1
    /\ countdown' = countdown
    /\ IF exiting # 0 \/ countdown' = 0
       THEN /\ pc' = "done"
            /\ exitStatus' = ExitDefault
            /\ ProcessExit
       ELSE /\ pc' = "sleep"
            /\ UNCHANGED exitStatus
            /\ dist' = ClearTable(dist)
            /\ sinceClear' = EmptyTable
            /\ UNCHANGED <<start, loc, unconsumed, entryOp, lastReturn>>
    /\ UNCHANGED <<config, exiting, reports, ktime, nevents>>
Drain ==
    /\ pc = "clear"
    /\ nclears' = nclears + 1
    /\ countdown' = countdown - 1
    /\ IF exiting # 0 \/ countdown' = 0
       THEN /\ pc' = "done"
            /\ exitStatus' = ExitDefault
            /\ ProcessExit
       ELSE /\ pc' = "sleep"
            /\ UNCHANGED exitStatus
            /\ dist' = ClearTable(dist)
            /\ sinceClear' = EmptyTable
            /\ UNCHANGED <<start, loc, unconsumed, entryOp, lastReturn>>
    /\ UNCHANGED <<config, exiting, reports, ktime, nevents>>

Next ==
    \/ Tick
    \/ \E t \in Threads, op \in Workload : trace_entry(t, op)
    \/ \E t \in Threads, f_op \in {f2fs_file_ops_addr, OtherFileOps} :
          trace_read_entry(t, f_op)
    \/ \E t \in Threads, op \in Workload : trace_return(t, op)
    \/ \E t \in Threads : dist_increment(t)
    \/ SleepTimeout
    \/ KeyboardInterruptInSleep
    \/ KeyboardInterruptUncaught
    \/ Render
    \/ Drain

Spec == Init /\ [][Next]_vars

(* ------------------------------ properties ---------------------------- *)
Pending(t) == loc[t].pc = "inc"

\* the timestamp of the most recent entry of thread t that no return has
\* consumed, NoTs when there is none
RECURSIVE LatestEntry(_)
LatestEntry(entries) ==
    IF entries = <<>> THEN NoTs
    ELSE IF Last(entries) >= 0 THEN Last(entries)
    ELSE LatestEntry(SubSeq(entries, 1, Len(entries) - 1))

\* C1: on every thread, a return handler consumes exactly the timestamp of
\* the most recent entry since the previous return: start holds that
\* timestamp and no older one, after two entries the return reads the
\* second entry's timestamp, and a return that followed no recording entry
\* consumed nothing.
C1_ReturnConsumesLatestEntry ==
    \A t \in Threads :
        /\ start[t] = LatestEntry(unconsumed[t])
        /\ Pending(t) =>
              /\ loc[t].tsp # NoTs
              /\ loc[t].tsp = LatestEntry(lastReturn[t].entries)
              /\ loc[t].elapsed =
                     USub(loc[t].now, LatestEntry(lastReturn[t].entries))
        /\ lastReturn[t].res = "absent" =>
              LatestEntry(lastReturn[t].entries) = NoTs
        /\ lastReturn[t].res \in {"negative", "recorded"} =>
              LatestEntry(lastReturn[t].entries) # NoTs

\* a return that followed two entries with different timestamps and computed
\* its elapsed time from the second
C1_Witness ==
    \E t \in Threads :
        /\ Pending(t)
        /\ lastReturn[t].res = "recorded"
        /\ Len(lastReturn[t].entries) >= 2
        /\ lastReturn[t].entries[1] # Last(lastReturn[t].entries)
        /\ loc[t].tsp = Last(lastReturn[t].entries)
        /\ loc[t].delta = 0
        /\ USub(ktime, lastReturn[t].entries[1]) \div factor >= 1

\* C2: an increment that arrives while the loop renders and clears is never
\* lost: dist.clear() removes no count that the report just rendered did
\* not include.
C2_ClearDropsOnlyRendered ==
    [][Drain => \A k \in DOMAIN dist : dist[k] <= Count(Last(reports), k)]_vars

\* C3: a termination signal at any point lets the cycle in progress complete:
\* the loop never ends with a report rendered and its clear not done.
C3_NoPartialReport ==
    pc \in {"done", "killed"} => nclears = Len(reports)

\* C4: a return whose elapsed time, read as a signed word, is negative leaves
\* no increment pending: every increment a handler is about to make comes
\* from a non-negative elapsed time, namely that time in the display unit.
C4_NegativeElapsedNotRecorded ==
    \A t \in Threads :
        Pending(t) =>
          /\ loc[t].elapsed >= 0
          /\ loc[t].elapsed < Half
          /\ loc[t].delta = loc[t].elapsed \div factor

\* a return found a timestamp, computed a negative elapsed time and stopped
C4_Witness ==
    \E t \in Threads :
        /\ lastReturn[t].res = "negative"
        /\ ~Pending(t)
        /\ start[t] = NoTs

C8_ReportShowsIncrementsSinceClear ==
    /\ [][Render =>
            \A k \in DOMAIN Last(reports') \cup DOMAIN sinceClear :
                Count(Last(reports'), k) = Count(sinceClear, k)]_vars
    /\ [](Running => nclears = Len(reports) - (IF pc = "clear" THEN 1 ELSE 0))

\* two reports: the keys of the first are absent from the second
C8_Witness ==
    /\ Len(reports) = 2
    /\ DOMAIN reports[1] # {}
    /\ DOMAIN reports[2] # {}
    /\ DOMAIN reports[1] \cap DOMAIN reports[2] = {}

\* C9: with an interval, a repeat count N and no termination signal, the
\* loop ends after exactly N reports, each followed by its clear, and is
\* never stuck before (a loop followed for MaxReports reports is left in
\* its sleep).
C9_ExactlyNReports ==
    (interval # NoArg /\ exiting = 0 /\ pc # "killed") =>
        /\ Len(reports) <= count
        /\ nclears + countdown = count
        /\ pc = "done" <=> nclears = count
        /\ pc = "done" => Len(reports) = count
        /\ (Running /\ ~(pc = "sleep" /\ Len(reports) >= MaxReports))
              => ENABLED (SleepTimeout \/ Render \/ Drain)

\* the loop ended by itself after two reports
C9_Witness ==
    /\ interval # NoArg
    /\ count = 2
    /\ exiting = 0
    /\ pc = "done"
    /\ Len(reports) = 2
    /\ nclears = 2

\* C10: with a process filter, start never holds an entry for a thread of
\* another process, no return on such a thread finds a timestamp, and no
\* increment is pending for it.
C10_FilteredThreadLeavesNoTrace ==
    \A t \in Threads :
        (pid # NoArg /\ Tgid(t) # pid) =>
            /\ start[t] = NoTs
            /\ ~Pending(t)
            /\ lastReturn[t].res \in {"none", "absent"}

\* a thread of another process fired an entry and then a return
C10_Witness ==
    \E t \in Threads :
        /\ pid # NoArg
        /\ Tgid(t) # pid
        /\ lastReturn[t].res = "absent"
        /\ Len(lastReturn[t].entries) >= 1

\* the kernel lists a symbol named exactly f2fs_file_operations
HasOpsSymbol ==
    \E i \in 1..Len(kernel.kallsyms) :
        kernel.kallsyms[i].name[1] = "f2fs_file_operations"

\* C11: on a kernel that has neither f2fs_file_read_iter nor a symbol
\* f2fs_file_operations the start-up ends in the resolution error, and no
\* probe is ever attached in that run.
C11_NoSymbolNoAttach ==
    (~kernel.dedicated /\ ~HasOpsSymbol) =>
        /\ pc = "exit"
        /\ attached = <<>>
        /\ nevents = 0
        /\ interval # 0 => errmsg = MsgNoSymbol

C11_Witness ==
    /\ ~kernel.dedicated
    /\ ~HasOpsSymbol
    /\ pid = 181
    /\ pc = "exit"
    /\ errmsg = MsgNoSymbol
    /\ attached = <<>>

\* C12: the start-up that ends in the resolution error prints a message and
\* exits with a status other than 0.
C12_ResolutionFailureStatus ==
    (pc = "exit" /\ ~kernel.dedicated /\ ~HasOpsSymbol /\ interval # 0) =>
        /\ errmsg # ""
        /\ exitStatus # NoArg
        /\ exitStatus # 0

\* C14: with interval 0 the process exits before the BPF program is loaded:
\* no probe is attached, nothing is reported, and neither map ever holds
\* anything.
C14_IntervalZeroRejected ==
    interval = 0 =>
        /\ pc = "exit"
        /\ attached = <<>>
        /\ reports = <<>>
        /\ nclears = 0
        /\ nevents = 0
        /\ start = [t \in Threads |-> NoTs]
        /\ dist = EmptyTable

C14_Witness ==
    /\ interval = 0
    /\ kernel.dedicated
    /\ pc = "exit"
    /\ errmsg = MsgInterval
    /\ attached = <<>>

\* C18: a start-up that gets to the resolver attaches the read entry probe
\* and the read return probe to one function: f2fs_file_read_iter with
\* trace_entry where the kernel has it, otherwise generic_file_read_iter with
\* trace_read_entry comparing against the address of the first symbol named
\* exactly f2fs_file_operations.
C18_ReadFunctionResolved ==
    (interval # 0 /\ (kernel.dedicated \/ HasOpsSymbol)) =>
        /\ Len(attached) = 8
        /\ kernel.dedicated =>
              /\ f2fs_read_fn = "f2fs_file_read_iter"
              /\ f2fs_trace_read_fn = "trace_entry"
        /\ ~kernel.dedicated =>
              /\ f2fs_read_fn = "generic_file_read_iter"
              /\ f2fs_trace_read_fn = "trace_read_entry"
              /\ \E i \in 1..Len(kernel.kallsyms) :
                    /\ kernel.kallsyms[i].name[1] = "f2fs_file_operations"
                    /\ kernel.kallsyms[i].addr = f2fs_file_ops_addr
                    /\ \A j \in 1..(i - 1) :
                          kernel.kallsyms[j].name[1] # "f2fs_file_operations"
        /\ attached[1] = [probe |-> "kprobe", event |-> f2fs_read_fn,
                          fn_name |-> f2fs_trace_read_fn]
        /\ attached[5] = [probe |-> "kretprobe", event |-> f2fs_read_fn,
                          fn_name |-> "trace_read_return"]
        /\ \A i \in 1..Len(attached) :
              (attached[i].fn_name \in {"trace_read_entry", "trace_read_return"}
               \/ attached[i].event \in {"f2fs_file_read_iter",
                                         "generic_file_read_iter"})
                 => i \in {1, 5}

C18_Witness ==
    /\ ~kernel.dedicated
    /\ f2fs_read_fn = "generic_file_read_iter"
    /\ f2fs_trace_read_fn = "trace_read_entry"
    /\ f2fs_file_ops_addr = 48
    /\ Len(attached) = 8
    /\ attached[5].event = "generic_file_read_iter"
    /\ pc = "done"

\* C13: a run without interval makes exactly one report-and-clear cycle, and
\* only a Ctrl-C caught in sleep() starts it, never the end of the sleep.
C13_NoIntervalOneCycleOnSignal ==
    interval = NoArg =>
        /\ Len(reports) <= 1
        /\ nclears <= 1
        /\ pc \in {"print", "clear", "done"} => exiting = 1

\* C15: where the read probes sit on generic_file_read_iter, the return of
\* a read that trace_read_entry dropped for its f_op never leads to an
\* increment, whatever start held for the thread.
C15_ForeignReadNeverCounted ==
    \A t \in Threads :
        (Pending(t) /\ loc[t].op = "read" /\ lastReturn[t].entries # <<>>) =>
            Last(lastReturn[t].entries) # NotF2fs

\* C16: a trace_return that finds no entry of its thread in start changes
\* neither start nor dist, and leaves no increment to come.
C16_MissedLookupChangesNothing ==
    [][\A t \in Threads, op \in Workload :
          (trace_return(t, op) /\ start[t] = NoTs) =>
              (start' = start /\ dist' = dist /\ loc' = loc)]_vars

C16_Witness ==
    \E t, u \in Threads :
        /\ t # u
        /\ lastReturn[t].res = "absent"
        /\ lastReturn[u].res = "recorded"
        /\ start[u] # NoTs
        /\ DOMAIN dist # {}

\* C17: once a Ctrl-C was caught in sleep(), the loop's next steps are one
\* report and one clear, in this order, and after the clear the process has
\* exited, whatever the countdown.
C17_SignalOneMoreReport ==
    [][(exiting = 1 /\ <<pc, reports, nclears>>' # <<pc, reports, nclears>>) =>
          \/ /\ pc = "print"
             /\ pc' = "clear"
             /\ Len(reports') = Len(reports) + 1
             /\ nclears' = nclears
          \/ /\ pc = "clear"
             /\ pc' = "done"
             /\ reports' = reports
             /\ nclears' = nclears + 1]_vars

\* C19: once trace_return has run for a thread, start holds no entry of that
\* thread until an entry stores one again, also when the elapsed time was
\* negative; so a return that records or discards a time had an entry stored
\* since the return before it.
C19_ReturnLeavesNoEntry ==
    \A t \in Threads :
        /\ Pending(t) => start[t] = NoTs
        /\ (lastReturn[t].res # "none" /\ LatestEntry(unconsumed[t]) = NoTs) =>
              start[t] = NoTs
        /\ lastReturn[t].res \in {"negative", "recorded"} =>
              \E i \in 1..Len(lastReturn[t].entries) : lastReturn[t].entries[i] >= 0

C19_Witness ==
    \E t \in Threads :
        /\ lastReturn[t].res = "negative"
        /\ Len(lastReturn[t].entries) = 1
        /\ unconsumed[t] = <<>>
        /\ start[t] = NoTs

\* C20: an increment carries the label of the operation whose entry stored
\* the timestamp the return consumed.
C20_LabelOfStoringEntry ==
    \A t \in Threads : Pending(t) => loc[t].op = loc[t].entered

====
